---- MODULE Spec2Model ----
(***************************************************************************)
(* Subscription service: the in-memory MockSubscriptionRepository, the     *)
(* PostgreSQL-backed SubscriptionRepository behind the HTTP handlers, and  *)
(* the cost calculation over a [start_period, end_period] window.          *)
(*                                                                         *)
(* Text that the code parses or compares character by character (dates,   *)
(* map keys) is a sequence of one-character strings; text that is only     *)
(* compared for equality (service names) is a TLA+ string.                 *)
(***************************************************************************)
EXTENDS Integers, Sequences, FiniteSets, TLC

VARIABLES
    repo,           \* which repository the process was wired with: "mock" | "postgres"
    subscriptions,  \* MockSubscriptionRepository.subscriptions: key -> Subscription
    rows,           \* the subscriptions table of the database: id -> row
    nextSerial,     \* the next value of the table's SERIAL id sequence
    now,            \* the latest wall-clock reading handed out
    created,        \* history: records the store created under ids of its own choice,
                    \* while nothing else has written to it; -1 once something else has
    supplied,       \* history: key -> the fields given to each create that returned
                    \* it, for the creates since the latest update, delete or
                    \* create under a caller-chosen id
    ret,            \* what the latest call returned, with the arguments it was given
    mutex,          \* MockSubscriptionRepository.mutex, a sync.RWMutex
    calls           \* goroutine -> the call on the in-memory store it is in, and where

vars == <<repo, subscriptions, rows, nextSerial, now, created, supplied, ret, mutex, calls>>

(***************************************************************************)
(* Bounds of the model.                                                    *)
(***************************************************************************)
MaxSubs == 3        \* highest id, and so the number of records, of the in-memory store
MaxNow == 1         \* wall-clock readings are 1..MaxNow
MaxRows == 4        \* highest serial id the subscriptions table hands out
MaxCalcSubs == 1    \* records of a store drawn for the calculation on its own
MaxGoroutines == 2  \* request goroutines calling the in-memory store at once

(***************************************************************************)
(* Characters, strconv.Itoa / strconv.Atoi, time.Parse("01-2006", _).      *)
(***************************************************************************)
DigitChars == <<"0", "1", "2", "3", "4", "5", "6", "7", "8", "9">>

IsDigit(c) == \E d \in 1..10 : DigitChars[d] = c

DigitVal(c) == (CHOOSE d \in 1..10 : DigitChars[d] = c) - 1

RECURSIVE Itoa(_)
Itoa(n) ==
    IF n < 10 THEN <<DigitChars[n + 1]>>
    ELSE Append(Itoa(n \div 10), DigitChars[(n % 10) + 1])

AllDigits(s) == \A i \in 1..Len(s) : IsDigit(s[i])

RECURSIVE DigitsValue(_)
DigitsValue(s) ==
    IF Len(s) = 0 THEN 0
    ELSE DigitsValue(SubSeq(s, 1, Len(s) - 1)) * 10 + DigitVal(s[Len(s)])

\* strconv.Atoi on an unsigned decimal: 0 (and an error) on anything else
Atoi(s) == IF Len(s) > 0 /\ AllDigits(s) THEN DigitsValue(s) ELSE 0

\* whether strconv.Atoi returns an error (signs are not among the inputs)
AtoiFails(s) == ~(Len(s) > 0 /\ AllDigits(s))

\* the zero time.Time that time.Parse returns beside an error
ZeroDate == [year |-> 1, month |-> 1]

\* time.Parse("01-2006", value): a two-digit month 01..12, "-", a four-digit
\* year, and nothing after it; the day defaults to the 1st.
TimeParse(value) ==
    IF /\ Len(value) = 7
       /\ IsDigit(value[1]) /\ IsDigit(value[2])
       /\ value[3] = "-"
       /\ \A i \in 4..7 : IsDigit(value[i])
       /\ DigitsValue(SubSeq(value, 1, 2)) \in 1..12
    THEN [err |-> FALSE,
          t |-> [year |-> DigitsValue(SubSeq(value, 4, 7)),
                 month |-> DigitsValue(SubSeq(value, 1, 2))]]
    ELSE [err |-> TRUE, t |-> ZeroDate]

\* time.Time.After / Before on first-of-month instants
After(t, u) == t.year > u.year \/ (t.year = u.year /\ t.month > u.month)

Before(t, u) == After(u, t)

\* the text "MM-YYYY" of month m of year y, as callers write it
MMYYYY(m, y) ==
    <<DigitChars[(m \div 10) + 1], DigitChars[(m % 10) + 1], "-",
      DigitChars[(y \div 1000) + 1], DigitChars[((y \div 100) % 10) + 1],
      DigitChars[((y \div 10) % 10) + 1], DigitChars[(y % 10) + 1]>>

(***************************************************************************)
(* uuid.Parse: several spellings of one identifier parse to the same UUID; *)
(* a UUID value is written as its canonical lower-case text.               *)
(***************************************************************************)
NilUUID == "00000000-0000-0000-0000-000000000000"
UserA == "60601fee-2bf1-4721-ae6f-7636e79a0cba"
UserB == "70701fee-3bf1-5721-be6f-8636e79a0cba"
UserAUpper == "60601FEE-2BF1-4721-AE6F-7636E79A0CBA"
NotAUUID == "not-a-uuid"

UuidParse(s) ==
    CASE s \in {UserA, UserAUpper} -> [err |-> FALSE, uuid |-> UserA]
      [] s = UserB -> [err |-> FALSE, uuid |-> UserB]
      [] s = NilUUID -> [err |-> FALSE, uuid |-> NilUUID]
      [] OTHER -> [err |-> TRUE, uuid |-> NilUUID]

(***************************************************************************)
(* models.Subscription.  EndDate is *string: <<>> is nil, <<s>> points at  *)
(* s.  Times are clock readings; 0 is the zero time.Time.                  *)
(***************************************************************************)
NilPtr == <<>>
Ptr(s) == <<s>>
ZeroTime == 0
NoErr == "nil"

Subscription(id, name, price, user, start, end, createdAt, updatedAt) ==
    [ID |-> id, ServiceName |-> name, Price |-> price, UserID |-> user,
     StartDate |-> start, EndDate |-> end, CreatedAt |-> createdAt, UpdatedAt |-> updatedAt]

ZeroSubscription == Subscription(0, "", 0, NilUUID, <<>>, NilPtr, ZeroTime, ZeroTime)

\* the arguments a call was given; the ones a call does not take stay empty
Args(id, userID, serviceName, startPeriod, endPeriod) ==
    [id |-> id, userID |-> userID, serviceName |-> serviceName,
     startPeriod |-> startPeriod, endPeriod |-> endPeriod]

NoArgs == Args(<<>>, "", "", <<>>, <<>>)

\* status is the HTTP status of a handler's answer, 0 for a repository call
Ret(op, args, status, err, sub, list, total) ==
    [op |-> op, args |-> args, status |-> status, err |-> err, sub |-> sub,
     list |-> list, total |-> total]

\* nothing returned yet: the caller holds a fresh response recorder
NewRet == Ret("New", NoArgs, 0, NoErr, ZeroSubscription, <<>>, 0)

\* the records of a store (a map or a table), whatever their keys
Records(store) == {store[k] : k \in DOMAIN store}

(***************************************************************************)
(* Inputs of the calls.                                                    *)
(***************************************************************************)
Jan2023 == MMYYYY(1, 2023)
Feb2023 == MMYYYY(2, 2023)
Mar2023 == MMYYYY(3, 2023)
Jun2023 == MMYYYY(6, 2023)
Dec2023 == MMYYYY(12, 2023)
Jan2024 == MMYYYY(1, 2024)
Feb2024 == MMYYYY(2, 2024)
Mar2024 == MMYYYY(3, 2024)
Jun2024 == MMYYYY(6, 2024)
Jul2024 == MMYYYY(7, 2024)
Dec2024 == MMYYYY(12, 2024)
BadMonth == <<"1", "3", "-", "2", "0", "2", "4">>      \* "13-2024"
YearFirst == <<"2", "0", "2", "4", "-", "1", "2">>     \* "2024-12"

\* what a caller of Create or Update fills in; the store sets the rest
Payload(name, price, user, start, end) ==
    Subscription(0, name, price, user, start, end, ZeroTime, ZeroTime)

Netflix700A == Payload("Netflix", 700, UserA, Jan2024, NilPtr)
Spotify199A == Payload("Spotify", 199, UserA, Feb2024, NilPtr)
YouTube299B == Payload("YouTube Premium", 299, UserB, Mar2024, NilPtr)
Netflix700B == Payload("Netflix", 700, UserB, Jun2023, Ptr(Jun2024))

Payloads == {Netflix700A, Spotify199A, YouTube299B, Netflix700B}

\* a payload of Update that supplies the price alone: every other field is
\* left at its zero value
PriceOnly650 == Payload("", 650, NilUUID, <<>>, NilPtr)

UpdatePayloads == Payloads \cup {PriceOnly650}

\* ids a caller puts in the payload of Create: 0 lets the store choose
PayloadIDs == 0..MaxSubs

\* keys GetByID, Update and Delete are called with; "01" is no key Itoa makes
Keys == {Itoa(i) : i \in 1..MaxSubs} \cup {<<"0", "1">>}

UserFilters == {"", UserAUpper, NotAUUID}
ServiceFilters == {"", "Netflix"}

\* <<start_period, end_period>> of the calculate calls: every pair of the months
\* below taken in calendar order, two pairs taken backwards and two pairs with a
\* malformed period
MonthSeq == <<Jun2023, Jan2024, Jun2024, Jul2024, Dec2024>>
Months == {MonthSeq[i] : i \in DOMAIN MonthSeq}
Windows ==
    {<<MonthSeq[w[1]], MonthSeq[w[2]]>> :
        w \in {v \in (DOMAIN MonthSeq) \X (DOMAIN MonthSeq) : v[1] <= v[2]}}
        \cup {<<Dec2024, Jan2024>>, <<Jul2024, Jun2024>>}
        \cup {<<BadMonth, Dec2024>>, <<Jan2024, YearFirst>>}

(***************************************************************************)
(* The lock of the in-memory store and the goroutines that call it.  When  *)
(* calls are made one after the other the lock is free between them and    *)
(* no goroutine is inside a call.                                          *)
(***************************************************************************)
Goroutines == 1..MaxGoroutines

\* readerCount: read holds taken and not released; writer: the goroutine whose
\* Lock has announced itself (0: none); locked: that goroutine holds the lock
Unlocked == [readerCount |-> 0, writer |-> 0, locked |-> FALSE]

Idle == [op |-> "none", pc |-> "idle"]

NoCalls == [g \in Goroutines |-> Idle]

(***************************************************************************)
(* MockSubscriptionRepository                                              *)
(***************************************************************************)
\* the id Create stores the record under
\* the history with one more create: key was returned for the given fields
Remember(history, key, fields) ==
    [k \in DOMAIN history \cup {key} |->
        IF k # key THEN history[k]
        ELSE IF key \in DOMAIN history THEN history[key] \cup {fields} ELSE {fields}]

MockCreateID(subs, subscription) ==
    IF subscription.ID = 0 THEN Cardinality(DOMAIN subs) + 1 ELSE subscription.ID

\* variant: with both filters given, passing one of them is enough
MockListMatches_EitherFilter(sub, userID, serviceName) ==
    LET userOK == ~UuidParse(userID).err /\ sub.UserID = UuidParse(userID).uuid
        serviceOK == sub.ServiceName = serviceName
    IN  IF userID # "" /\ serviceName # "" THEN userOK \/ serviceOK
        ELSE (userID # "" => userOK) /\ (serviceName # "" => serviceOK)

\* the loop body of List: whether sub passes both filters
MockListMatches(sub, userID, serviceName) ==
    /\ userID # "" => (~UuidParse(userID).err /\ sub.UserID = UuidParse(userID).uuid)
    /\ ~(serviceName # "" /\ sub.ServiceName # serviceName)

\* every enumeration of the finite set S: the orders in which a map or an
\* unordered query is walked
Orderings(S) ==
    {f \in [1..Cardinality(S) -> S] : \A i, j \in 1..Cardinality(S) : f[i] = f[j] => i = j}

\* the slices List may return: the matching records in any iteration order
MockListResults(subs, userID, serviceName) ==
    LET matched == {k \in DOMAIN subs : MockListMatches(subs[k], userID, serviceName)}
    IN  {[i \in 1..Cardinality(matched) |-> subs[ord[i]]] : ord \in Orderings(matched)}

\* variant: the window's start is taken whatever the record's start
MockEffectiveStartDate_WindowStart(subStartDate, startDate) == startDate

\* variant: the record's start is taken whatever the window's start
MockEffectiveStartDate_SubStart(subStartDate, startDate) == subStartDate

MockEffectiveStartDate(subStartDate, startDate) ==
    IF After(subStartDate, startDate) THEN subStartDate ELSE startDate

\* variant: the window's end is taken whatever the record's end
MockEffectiveEndDate_WindowEnd(sub, endDate) == endDate

MockEffectiveEndDate(sub, endDate) ==
    IF sub.EndDate # NilPtr
    THEN LET p == TimeParse(sub.EndDate[1])
         IN  IF ~p.err /\ Before(p.t, endDate) THEN p.t ELSE endDate
    ELSE endDate

\* variant: the years of the two dates are left out of the count
MockSubMonths_SameYear(effectiveStartDate, effectiveEndDate) ==
    (effectiveEndDate.month - effectiveStartDate.month) + 1

\* variant: the distance between the two months, whichever comes first
MockSubMonths_Absolute(effectiveStartDate, effectiveEndDate) ==
    LET d == (effectiveEndDate.year - effectiveStartDate.year) * 12
                + (effectiveEndDate.month - effectiveStartDate.month)
    IN  (IF d < 0 THEN -d ELSE d) + 1

\* variant: the difference of the two months, their own month not counted
MockSubMonths_Exclusive(effectiveStartDate, effectiveEndDate) ==
    (effectiveEndDate.year - effectiveStartDate.year) * 12
        + (effectiveEndDate.month - effectiveStartDate.month)

MockSubMonths(effectiveStartDate, effectiveEndDate) ==
    (effectiveEndDate.year - effectiveStartDate.year) * 12
        + (effectiveEndDate.month - effectiveStartDate.month) + 1

\* variant: a month count of zero or less is added like any other
MockAddCost_NoGuard(totalCost, sub, startDate, endDate) ==
    LET p == TimeParse(sub.StartDate) IN
    IF p.err THEN totalCost
    ELSE IF After(p.t, endDate) THEN totalCost
    ELSE totalCost + sub.Price * MockSubMonths(MockEffectiveStartDate(p.t, startDate),
                                               MockEffectiveEndDate(sub, endDate))

\* variant: the cost of a record replaces the running total
MockAddCost_LastWins(totalCost, sub, startDate, endDate) ==
    LET p == TimeParse(sub.StartDate) IN
    IF p.err THEN totalCost
    ELSE IF After(p.t, endDate) THEN totalCost
    ELSE LET subMonths == MockSubMonths(MockEffectiveStartDate(p.t, startDate),
                                        MockEffectiveEndDate(sub, endDate))
         IN  IF subMonths > 0 THEN sub.Price * subMonths ELSE totalCost

\* one pass of the loop of CalculateTotalCost: totalCost after sub
MockAddCost(totalCost, sub, startDate, endDate) ==
    LET p == TimeParse(sub.StartDate) IN
    IF p.err THEN totalCost
    ELSE IF After(p.t, endDate) THEN totalCost
    ELSE LET subMonths == MockSubMonths(MockEffectiveStartDate(p.t, startDate),
                                        MockEffectiveEndDate(sub, endDate))
         IN  IF subMonths > 0 THEN totalCost + sub.Price * subMonths ELSE totalCost

RECURSIVE MockCostLoop(_, _, _, _, _)
MockCostLoop(list, i, totalCost, startDate, endDate) ==
    IF i > Len(list) THEN totalCost
    ELSE MockCostLoop(list, i + 1, MockAddCost(totalCost, list[i], startDate, endDate),
                      startDate, endDate)

\* variant: a window taken backwards is calculated like any other
MockCalculateOutcomes_NoOrderCheck(subs, userID, serviceName, startPeriod, endPeriod) ==
    LET s == TimeParse(startPeriod)
        e == TimeParse(endPeriod)
    IN  IF s.err THEN {[total |-> 0, err |-> "invalid start period format"]}
        ELSE IF e.err THEN {[total |-> 0, err |-> "invalid end period format"]}
        ELSE {[total |-> MockCostLoop(list, 1, 0, s.t, e.t), err |-> NoErr] :
                 list \in MockListResults(subs, userID, serviceName)}

\* the (total, error) pairs CalculateTotalCost may return
MockCalculateOutcomes(subs, userID, serviceName, startPeriod, endPeriod) ==
    LET s == TimeParse(startPeriod)
        e == TimeParse(endPeriod)
    IN  IF s.err THEN {[total |-> 0, err |-> "invalid start period format"]}
        ELSE IF e.err THEN {[total |-> 0, err |-> "invalid end period format"]}
        ELSE IF After(s.t, e.t)
             THEN {[total |-> 0, err |-> "start period cannot be after end period"]}
        ELSE {[total |-> MockCostLoop(list, 1, 0, s.t, e.t), err |-> NoErr] :
                 list \in MockListResults(subs, userID, serviceName)}

MockCreate ==
    /\ repo = "mock"
    /\ ret = NewRet
    /\ \E p \in Payloads, id \in PayloadIDs, t \in now..MaxNow :
         LET subscription == [p EXCEPT !.ID = id]
             newID == MockCreateID(subscriptions, subscription)
             stored == [subscription EXCEPT !.ID = newID, !.CreatedAt = t, !.UpdatedAt = t]
         IN  /\ newID <= MaxSubs
             /\ now' = t
             /\ subscriptions' =
                  [k \in DOMAIN subscriptions \cup {Itoa(newID)} |->
                     IF k = Itoa(newID) THEN stored ELSE subscriptions[k]]
             /\ created' = IF id = 0 /\ created >= 0 THEN created + 1 ELSE -1
             /\ supplied' = IF id = 0 THEN Remember(supplied, Itoa(newID), p) ELSE <<>>
             /\ ret' = Ret("Create", subscription, 0, NoErr, stored, <<>>, 0)
    /\ UNCHANGED <<repo, rows, nextSerial>>
    /\ UNCHANGED <<mutex, calls>>

\* variant: a read stamps the record it returns
MockGetByID_Touch ==
    /\ repo = "mock"
    /\ ret = NewRet
    /\ \E id \in Keys :
         IF id \in DOMAIN subscriptions
         THEN LET touched == [subscriptions[id] EXCEPT !.UpdatedAt = 0]
              IN  /\ subscriptions' = [subscriptions EXCEPT ![id] = touched]
                  /\ ret' = Ret("GetByID", Args(id, "", "", <<>>, <<>>), 0, NoErr,
                                touched, <<>>, 0)
         ELSE /\ ret' = Ret("GetByID", Args(id, "", "", <<>>, <<>>), 0,
                            "subscription not found", ZeroSubscription, <<>>, 0)
              /\ UNCHANGED subscriptions
    /\ UNCHANGED <<repo, rows, nextSerial, now, created, supplied>>
    /\ UNCHANGED <<mutex, calls>>

MockGetByID ==
    /\ repo = "mock"
    /\ ret = NewRet
    /\ \E id \in Keys :
         ret' = IF id \in DOMAIN subscriptions
                THEN Ret("GetByID", Args(id, "", "", <<>>, <<>>), 0, NoErr,
                         subscriptions[id], <<>>, 0)
                ELSE Ret("GetByID", Args(id, "", "", <<>>, <<>>), 0, "subscription not found",
                         ZeroSubscription, <<>>, 0)
    /\ UNCHANGED <<repo, subscriptions, rows, nextSerial, now, created, supplied>>
    /\ UNCHANGED <<mutex, calls>>

MockList ==
    /\ repo = "mock"
    /\ ret = NewRet
    /\ \E userID \in UserFilters, serviceName \in ServiceFilters :
         \E result \in MockListResults(subscriptions, userID, serviceName) :
            ret' = Ret("List", Args(<<>>, userID, serviceName, <<>>, <<>>), 0, NoErr,
                       ZeroSubscription, result, 0)
    /\ UNCHANGED <<repo, subscriptions, rows, nextSerial, now, created, supplied>>
    /\ UNCHANGED <<mutex, calls>>

MockUpdate ==
    /\ repo = "mock"
    /\ ret = NewRet
    /\ \E id \in Keys, p \in UpdatePayloads, t \in now..MaxNow :
         IF id \notin DOMAIN subscriptions
         THEN /\ ret' = Ret("Update", [id |-> id, subscription |-> p], 0,
                            "subscription not found", ZeroSubscription, <<>>, 0)
              /\ UNCHANGED <<subscriptions, now, supplied>>
         ELSE LET stored == [p EXCEPT !.ID = Atoi(id), !.UpdatedAt = t]
              IN  /\ now' = t
                  /\ supplied' = <<>>
                  /\ subscriptions' = [subscriptions EXCEPT ![id] = stored]
                  /\ ret' = Ret("Update", [id |-> id, subscription |-> p], 0, NoErr,
                                stored, <<>>, 0)
    /\ UNCHANGED <<repo, rows, nextSerial, created>>
    /\ UNCHANGED <<mutex, calls>>

\* variant: a delete takes the owner's other records with it
MockDelete_Cascade ==
    /\ repo = "mock"
    /\ ret = NewRet
    /\ \E id \in Keys :
         IF id \notin DOMAIN subscriptions
         THEN /\ ret' = Ret("Delete", Args(id, "", "", <<>>, <<>>), 0,
                            "subscription not found", ZeroSubscription, <<>>, 0)
              /\ UNCHANGED <<subscriptions, created, supplied>>
         ELSE /\ subscriptions' =
                   [k \in {j \in DOMAIN subscriptions :
                              subscriptions[j].UserID # subscriptions[id].UserID}
                      |-> subscriptions[k]]
              /\ created' = -1
              /\ supplied' = <<>>
              /\ ret' = Ret("Delete", Args(id, "", "", <<>>, <<>>), 0, NoErr,
                            ZeroSubscription, <<>>, 0)
    /\ UNCHANGED <<repo, rows, nextSerial, now>>
    /\ UNCHANGED <<mutex, calls>>

MockDelete ==
    /\ repo = "mock"
    /\ ret = NewRet
    /\ \E id \in Keys :
         IF id \notin DOMAIN subscriptions
         THEN /\ ret' = Ret("Delete", Args(id, "", "", <<>>, <<>>), 0,
                            "subscription not found", ZeroSubscription, <<>>, 0)
              /\ UNCHANGED <<subscriptions, created, supplied>>
         ELSE /\ subscriptions' = [k \in DOMAIN subscriptions \ {id} |-> subscriptions[k]]
              /\ created' = -1
              /\ supplied' = <<>>
              /\ ret' = Ret("Delete", Args(id, "", "", <<>>, <<>>), 0, NoErr,
                            ZeroSubscription, <<>>, 0)
    /\ UNCHANGED <<repo, rows, nextSerial, now>>
    /\ UNCHANGED <<mutex, calls>>

MockCalculateTotalCost ==
    /\ repo = "mock"
    /\ ret = NewRet
    /\ \E userID \in UserFilters, serviceName \in ServiceFilters, w \in Windows :
         \E out \in MockCalculateOutcomes(subscriptions, userID, serviceName, w[1], w[2]) :
            ret' = Ret("CalculateTotalCost", Args(<<>>, userID, serviceName, w[1], w[2]),
                       0, out.err, ZeroSubscription, <<>>, out.total)
    /\ UNCHANGED <<repo, subscriptions, rows, nextSerial, now, created, supplied>>
    /\ UNCHANGED <<mutex, calls>>

(***************************************************************************)
(* The subscriptions table and SubscriptionRepository (SQL).               *)
(***************************************************************************)
\* RunMigrations on an empty table: the three rows it inserts
SeedRows ==
    (1 :> Subscription(1, "Netflix", 599, UserA, Jan2023, Ptr(Jan2024), 1, 1)) @@
    (2 :> Subscription(2, "Spotify", 199, UserA, Feb2023, NilPtr, 1, 1)) @@
    (3 :> Subscription(3, "Yandex Plus", 299, UserB, Mar2023, Ptr(Mar2024), 1, 1))

\* the code point of a character of a date
CharCode(c) == IF c = "-" THEN 45 ELSE 48 + DigitVal(c)

\* a <= b on VARCHAR values: the first differing character decides.  (The dates
\* all carry their "-" in the same place, so a collation that skips
\* punctuation orders them the same way.)
StrLE(a, b) ==
    LET n == IF Len(a) < Len(b) THEN Len(a) ELSE Len(b)
        diff == {i \in 1..n : a[i] # b[i]}
    IN  IF diff = {} THEN Len(a) <= Len(b)
        ELSE LET i == CHOOSE j \in diff : \A k \in diff : j <= k
             IN  CharCode(a[i]) < CharCode(b[i])

\* the WHERE clause List builds from its two optional filters
RepoListMatches(row, userID, serviceName) ==
    /\ userID # NilPtr => row.UserID = userID[1]
    /\ (serviceName # NilPtr /\ serviceName[1] # "") => row.ServiceName = serviceName[1]

\* SELECT ... FROM subscriptions [WHERE ...]: no ORDER BY, so in any order
RepoListResults(table, userID, serviceName) ==
    LET matched == {k \in DOMAIN table : RepoListMatches(table[k], userID, serviceName)}
    IN  {[i \in 1..Cardinality(matched) |-> table[ord[i]]] : ord \in Orderings(matched)}

\* the WHERE clause of CalculateTotalCost: $1 is req.EndPeriod, $2 req.StartPeriod
RepoCalculateMatches(row, req) ==
    /\ StrLE(row.StartDate, req.EndPeriod)
    /\ (row.EndDate = NilPtr \/ StrLE(req.StartPeriod, row.EndDate[1]))
    /\ req.UserID # NilPtr => row.UserID = req.UserID[1]
    /\ (req.ServiceName # NilPtr /\ req.ServiceName[1] # "")
          => row.ServiceName = req.ServiceName[1]

RECURSIVE SumPrice(_, _)
SumPrice(table, ids) ==
    IF ids = {} THEN 0
    ELSE LET k == CHOOSE x \in ids : TRUE
         IN  table[k].Price + SumPrice(table, ids \ {k})

\* SELECT SUM(price) ...: NULL, read as 0, when no row matches
RepoCalculateTotalCost(table, req) ==
    SumPrice(table, {k \in DOMAIN table : RepoCalculateMatches(table[k], req)})

(***************************************************************************)
(* models: the requests and their Validate.                                *)
(***************************************************************************)
\* ^(0[1-9]|1[0-2])-(\d{4})$
DatePattern_AnyTwoDigits(s) ==
    /\ Len(s) = 7
    /\ IsDigit(s[1]) /\ IsDigit(s[2])
    /\ s[3] = "-"
    /\ \A i \in 4..7 : IsDigit(s[i])

DatePattern(s) ==
    /\ Len(s) = 7
    /\ \/ s[1] = "0" /\ IsDigit(s[2]) /\ s[2] # "0"
       \/ s[1] = "1" /\ s[2] \in {"0", "1", "2"}
    /\ s[3] = "-"
    /\ \A i \in 4..7 : IsDigit(s[i])

CreateSubscriptionRequest(name, price, user, start, end) ==
    [ServiceName |-> name, Price |-> price, UserID |-> user, StartDate |-> start,
     EndDate |-> end]

\* binding:"required" on the four fields, min=1 on price; user_id must parse
CreateBindOK(req) ==
    /\ req.ServiceName # ""
    /\ req.Price >= 1
    /\ ~UuidParse(req.UserID).err /\ UuidParse(req.UserID).uuid # NilUUID
    /\ req.StartDate # <<>>

CreateValidate(req) ==
    /\ DatePattern(req.StartDate)
    /\ req.EndDate # NilPtr => DatePattern(req.EndDate[1])

\* Price is *int: <<>> is nil; user is the text of the JSON document, "" when the
\* document has no user_id; start is <<>> when it has no start_date
UpdateSubscriptionRequest(name, price, user, start, end) ==
    [ServiceName |-> name, Price |-> price, UserID |-> user, StartDate |-> start,
     EndDate |-> end]

\* binding:"omitempty,min=1" on price; a user_id, when given, must parse
UpdateBindOK(req) ==
    /\ req.Price # NilPtr => req.Price[1] >= 1
    /\ req.UserID # "" => ~UuidParse(req.UserID).err

\* "" when the request passes, else the message of the error
UpdateValidate(req) ==
    IF req.StartDate # <<>> /\ ~DatePattern(req.StartDate)
    THEN "start_date must be in MM-YYYY format"
    ELSE IF req.EndDate # NilPtr /\ ~DatePattern(req.EndDate[1])
    THEN "end_date must be in MM-YYYY format"
    ELSE ""

CalculateCostRequest(user, name, start, end) ==
    [UserID |-> user, ServiceName |-> name, StartPeriod |-> start, EndPeriod |-> end]

CalculateValidate(req) == DatePattern(req.StartPeriod) /\ DatePattern(req.EndPeriod)

\* bodies of POST /subscriptions: user_id as the text of the JSON document
CreateRequests ==
    {CreateSubscriptionRequest("Netflix", 700, UserB, Jan2024, NilPtr),
     CreateSubscriptionRequest("Spotify", 199, UserAUpper, Dec2023, Ptr(Feb2024)),
     CreateSubscriptionRequest("Spotify", 199, UserA, BadMonth, NilPtr),
     CreateSubscriptionRequest("Netflix", 0, NotAUUID, Jan2024, NilPtr)}

\* start_period / end_period of GET /subscriptions/calculate; <<>> is a missing one
QueryWindows == {<<Jan2023, Dec2023>>, <<Jan2024, Feb2024>>, <<Dec2023, Jan2023>>,
                 <<YearFirst, Dec2023>>, << <<>>, Dec2023 >>}

\* the body of PUT /subscriptions/{id} as it is on the wire: the end_date key
\* is absent, or present with null (NilPtr) or with a string
UpdateBody(name, price, user, start, endDatePresent, end) ==
    [ServiceName |-> name, Price |-> price, UserID |-> user, StartDate |-> start,
     EndDatePresent |-> endDatePresent, EndDate |-> end]

\* ShouldBindJSON into UpdateSubscriptionRequest: EndDate is a *string, nil
\* when the key is absent and nil when its value is null
UpdateBind(body) ==
    UpdateSubscriptionRequest(body.ServiceName, body.Price, body.UserID, body.StartDate,
                              IF body.EndDatePresent THEN body.EndDate ELSE NilPtr)

UpdateBodies ==
    {UpdateBody("", Ptr(650), "", <<>>, FALSE, NilPtr),
     UpdateBody("", NilPtr, "", <<>>, TRUE, NilPtr),
     UpdateBody("Okko", Ptr(250), UserB, Feb2024, TRUE, Ptr(Dec2024)),
     UpdateBody("Netflix", NilPtr, NilUUID, <<>>, TRUE, Ptr(Jan2024)),
     UpdateBody("", NilPtr, "", BadMonth, FALSE, NilPtr),
     UpdateBody("", NilPtr, "", <<>>, TRUE, Ptr(YearFirst)),
     UpdateBody("", NilPtr, NotAUUID, <<>>, FALSE, NilPtr)}

\* the {id} of the paths: a seeded row, the first row a create adds, no number
HandlerIDs == {Itoa(1), Itoa(Cardinality(DOMAIN SeedRows) + 1), <<"x">>}

\* how a request's database statements end: all succeed, or one of them fails
Failures == {"none", "first", "second"}

(***************************************************************************)
(* SubscriptionHandler over the database repository.                       *)
(***************************************************************************)
\* INSERT ... RETURNING id: the row the table holds afterwards
RepoCreateRow(id, req, t) ==
    Subscription(id, req.ServiceName, req.Price, UuidParse(req.UserID).uuid,
                 req.StartDate, req.EndDate, t, t)

HandlerCreate ==
    /\ repo = "postgres"
    /\ ret = NewRet
    /\ \E req \in CreateRequests, t \in now..MaxNow, failure \in Failures :
         IF ~CreateBindOK(req)
         THEN /\ ret' = Ret("Create", req, 400, "bind", ZeroSubscription, <<>>, 0)
              /\ UNCHANGED <<rows, nextSerial, now, created, supplied>>
         ELSE IF ~CreateValidate(req)
         THEN /\ ret' = Ret("Create", req, 400, "date must be in MM-YYYY format",
                            ZeroSubscription, <<>>, 0)
              /\ UNCHANGED <<rows, nextSerial, now, created, supplied>>
         ELSE IF failure = "first"
         THEN /\ ret' = Ret("Create", req, 500, "Failed to create subscription",
                            ZeroSubscription, <<>>, 0)
              /\ UNCHANGED <<rows, nextSerial, now, created, supplied>>
         ELSE LET row == RepoCreateRow(nextSerial, req, t)
              IN  /\ nextSerial <= MaxRows
                  /\ rows' = (nextSerial :> row) @@ rows
                  /\ nextSerial' = nextSerial + 1
                  /\ now' = t
                  /\ created' = IF created >= 0 THEN created + 1 ELSE -1
                  /\ supplied' = IF failure = "second" THEN supplied
                                  ELSE Remember(supplied, nextSerial,
                                                [row EXCEPT !.ID = 0,
                                                            !.CreatedAt = ZeroTime,
                                                            !.UpdatedAt = ZeroTime])
                  /\ ret' = IF failure = "second"
                            THEN Ret("Create", req, 500,
                                     "Failed to retrieve created subscription",
                                     ZeroSubscription, <<>>, 0)
                            ELSE Ret("Create", req, 201, NoErr, row, <<>>, 0)
    /\ UNCHANGED <<repo, subscriptions>>
    /\ UNCHANGED <<mutex, calls>>

HandlerList ==
    /\ repo = "postgres"
    /\ ret = NewRet
    /\ \E userIDStr \in UserFilters, serviceName \in ServiceFilters,
          failure \in Failures \ {"second"} :
         LET args == Args(<<>>, userIDStr, serviceName, <<>>, <<>>)
             userID == IF userIDStr # "" THEN Ptr(UuidParse(userIDStr).uuid) ELSE NilPtr
             serviceNamePtr == IF serviceName # "" THEN Ptr(serviceName) ELSE NilPtr
         IN  IF userIDStr # "" /\ UuidParse(userIDStr).err
             THEN ret' = Ret("List", args, 400, "Invalid user ID format",
                             ZeroSubscription, <<>>, 0)
             ELSE IF failure = "first"
             THEN ret' = Ret("List", args, 500, "Failed to list subscriptions",
                             ZeroSubscription, <<>>, 0)
             ELSE \E result \in RepoListResults(rows, userID, serviceNamePtr) :
                     ret' = Ret("List", args, 200, NoErr, ZeroSubscription, result, 0)
    /\ UNCHANGED <<repo, subscriptions, rows, nextSerial, now, created, supplied>>
    /\ UNCHANGED <<mutex, calls>>

HandlerCalculateTotalCost ==
    /\ repo = "postgres"
    /\ ret = NewRet
    /\ \E userIDStr \in UserFilters, serviceName \in ServiceFilters, w \in QueryWindows,
          failure \in Failures \ {"second"} :
         LET args == Args(<<>>, userIDStr, serviceName, w[1], w[2])
             req == CalculateCostRequest(
                        IF userIDStr # "" THEN Ptr(UuidParse(userIDStr).uuid) ELSE NilPtr,
                        IF serviceName # "" THEN Ptr(serviceName) ELSE NilPtr,
                        w[1], w[2])
         IN  IF w[1] = <<>> \/ w[2] = <<>>
             THEN ret' = Ret("CalculateTotalCost", args, 400, "bind",
                             ZeroSubscription, <<>>, 0)
             ELSE IF ~CalculateValidate(req)
             THEN ret' = Ret("CalculateTotalCost", args, 400,
                             "period must be in MM-YYYY format", ZeroSubscription, <<>>, 0)
             ELSE IF userIDStr # "" /\ UuidParse(userIDStr).err
             THEN ret' = Ret("CalculateTotalCost", args, 400, "Invalid user ID format",
                             ZeroSubscription, <<>>, 0)
             ELSE IF failure = "first"
             THEN ret' = Ret("CalculateTotalCost", args, 500,
                             "Failed to calculate total cost", ZeroSubscription, <<>>, 0)
             ELSE ret' = Ret("CalculateTotalCost", args, 200, NoErr, ZeroSubscription,
                             <<>>, RepoCalculateTotalCost(rows, req))
    /\ UNCHANGED <<repo, subscriptions, rows, nextSerial, now, created, supplied>>
    /\ UNCHANGED <<mutex, calls>>

\* UPDATE subscriptions SET ... WHERE id = $n: the row afterwards
RepoUpdateRow(row, req, t) ==
    [row EXCEPT !.ServiceName = IF req.ServiceName # "" THEN req.ServiceName ELSE @,
                !.Price = IF req.Price # NilPtr THEN req.Price[1] ELSE @,
                !.UserID = IF req.UserID # "" /\ UuidParse(req.UserID).uuid # NilUUID
                           THEN UuidParse(req.UserID).uuid ELSE @,
                !.StartDate = IF req.StartDate # <<>> THEN req.StartDate ELSE @,
                !.EndDate = req.EndDate,
                !.UpdatedAt = t]

\* for Get, Update and Delete, err is the error the handler met: its own for a
\* 400, the repository's otherwise
HandlerGet ==
    /\ repo = "postgres"
    /\ ret = NewRet
    /\ \E idStr \in HandlerIDs, failure \in Failures \ {"second"} :
         LET args == Args(idStr, "", "", <<>>, <<>>)
             id == Atoi(idStr)
         IN  IF AtoiFails(idStr)
             THEN ret' = Ret("Get", args, 400, "Invalid subscription ID",
                             ZeroSubscription, <<>>, 0)
             ELSE IF failure = "first"
             THEN ret' = Ret("Get", args, 404, "failed to get subscription",
                             ZeroSubscription, <<>>, 0)
             ELSE IF id \notin DOMAIN rows
             THEN ret' = Ret("Get", args, 404, "subscription not found",
                             ZeroSubscription, <<>>, 0)
             ELSE ret' = Ret("Get", args, 200, NoErr, rows[id], <<>>, 0)
    /\ UNCHANGED <<repo, subscriptions, rows, nextSerial, now, created, supplied>>
    /\ UNCHANGED <<mutex, calls>>

HandlerUpdate ==
    /\ repo = "postgres"
    /\ ret = NewRet
    /\ \E idStr \in HandlerIDs, body \in UpdateBodies, t \in now..MaxNow,
          failure \in Failures :
         LET req == UpdateBind(body)
             args == [id |-> idStr, body |-> body, request |-> req]
             id == Atoi(idStr)
         IN  IF AtoiFails(idStr)
             THEN /\ ret' = Ret("Update", args, 400, "Invalid subscription ID",
                                ZeroSubscription, <<>>, 0)
                  /\ UNCHANGED <<rows, now, supplied>>
             ELSE IF ~UpdateBindOK(req)
             THEN /\ ret' = Ret("Update", args, 400, "bind", ZeroSubscription, <<>>, 0)
                  /\ UNCHANGED <<rows, now, supplied>>
             ELSE IF UpdateValidate(req) # ""
             THEN /\ ret' = Ret("Update", args, 400, UpdateValidate(req),
                                ZeroSubscription, <<>>, 0)
                  /\ UNCHANGED <<rows, now, supplied>>
             ELSE IF failure = "first"
             THEN /\ ret' = Ret("Update", args, 404, "failed to update subscription",
                                ZeroSubscription, <<>>, 0)
                  /\ UNCHANGED <<rows, now, supplied>>
             ELSE IF id \notin DOMAIN rows
             THEN /\ ret' = Ret("Update", args, 404, "subscription not found",
                                ZeroSubscription, <<>>, 0)
                  /\ UNCHANGED <<rows, now, supplied>>
             ELSE LET row == RepoUpdateRow(rows[id], req, t)
                  IN  /\ rows' = [rows EXCEPT ![id] = row]
                      /\ now' = t
                      /\ supplied' = <<>>
                      /\ ret' = IF failure = "second"
                                THEN Ret("Update", args, 500, "failed to get subscription",
                                         ZeroSubscription, <<>>, 0)
                                ELSE Ret("Update", args, 200, NoErr, row, <<>>, 0)
    /\ UNCHANGED <<repo, subscriptions, nextSerial, created>>
    /\ UNCHANGED <<mutex, calls>>

HandlerDelete ==
    /\ repo = "postgres"
    /\ ret = NewRet
    /\ \E idStr \in HandlerIDs, failure \in Failures \ {"second"} :
         LET args == Args(idStr, "", "", <<>>, <<>>)
             id == Atoi(idStr)
         IN  IF AtoiFails(idStr)
             THEN /\ ret' = Ret("Delete", args, 400, "Invalid subscription ID",
                                ZeroSubscription, <<>>, 0)
                  /\ UNCHANGED <<rows, created, supplied>>
             ELSE IF failure = "first"
             THEN /\ ret' = Ret("Delete", args, 404, "failed to delete subscription",
                                ZeroSubscription, <<>>, 0)
                  /\ UNCHANGED <<rows, created, supplied>>
             ELSE IF id \notin DOMAIN rows
             THEN /\ ret' = Ret("Delete", args, 404, "subscription not found",
                                ZeroSubscription, <<>>, 0)
                  /\ UNCHANGED <<rows, created, supplied>>
             ELSE /\ rows' = [k \in DOMAIN rows \ {id} |-> rows[k]]
                  /\ created' = -1
                  /\ supplied' = <<>>
                  /\ ret' = Ret("Delete", args, 204, NoErr, ZeroSubscription, <<>>, 0)
    /\ UNCHANGED <<repo, subscriptions, nextSerial, now>>
    /\ UNCHANGED <<mutex, calls>>

(***************************************************************************)
(* The process: the tests wire the handlers to the in-memory repository,   *)
(* main wires them to the database after RunMigrations.                    *)
(***************************************************************************)
\* the caller is done with the answer and takes a fresh recorder for its next call
NewRecorder ==
    /\ ret # NewRet
    /\ ret' = NewRet
    /\ UNCHANGED <<repo, subscriptions, rows, nextSerial, now, created, supplied>>
    /\ UNCHANGED <<mutex, calls>>

InitMock ==
    /\ repo = "mock"
    /\ subscriptions = <<>>
    /\ rows = <<>>
    /\ nextSerial = 1
    /\ now = 1
    /\ created = 0
    /\ supplied = <<>>
    /\ ret = NewRet
    /\ mutex = Unlocked
    /\ calls = NoCalls

InitPostgres ==
    /\ repo = "postgres"
    /\ subscriptions = <<>>
    /\ rows = SeedRows
    /\ nextSerial = 4
    /\ now = 1
    /\ created = 0
    /\ supplied = <<>>
    /\ ret = NewRet
    /\ mutex = Unlocked
    /\ calls = NoCalls

Init == InitMock \/ InitPostgres

Next ==
    \/ MockCreate
    \/ MockGetByID
    \/ MockList
    \/ MockUpdate
    \/ MockDelete
    \/ MockCalculateTotalCost
    \/ HandlerCreate
    \/ HandlerGet
    \/ HandlerList
    \/ HandlerUpdate
    \/ HandlerDelete
    \/ HandlerCalculateTotalCost
    \/ NewRecorder

Spec == Init /\ [][Next]_vars

(***************************************************************************)
(* The calculation on its own: a store drawn from every combination of     *)
(* the fields below, and one CalculateTotalCost call on it.                *)
(***************************************************************************)
CalcStartDates == {Jun2023, Jan2024, Jul2024, Dec2024, BadMonth}
CalcEndDates == {NilPtr, Ptr(Jan2024), Ptr(Jun2024), Ptr(Dec2024), Ptr(YearFirst)}
CalcOwners == {<<"Netflix", 700, UserA>>, <<"Spotify", 199, UserB>>}

CalcRecords ==
    {Payload(o[1], o[2], o[3], s, e) : o \in CalcOwners, s \in CalcStartDates,
                                        e \in CalcEndDates}

\* the stores that n creates with store-chosen ids leave, for n up to MaxCalcSubs
CalcStores ==
    UNION {{[k \in {Itoa(i) : i \in 1..n} |->
               [f[Atoi(k)] EXCEPT !.ID = Atoi(k), !.CreatedAt = 1, !.UpdatedAt = 1]] :
            f \in [1..n -> CalcRecords]} : n \in 0..MaxCalcSubs}

InitCalc ==
    /\ repo = "mock"
    /\ subscriptions \in CalcStores
    /\ rows = <<>>
    /\ nextSerial = 1
    /\ now = 1
    /\ created = -1
    /\ supplied = <<>>
    /\ ret = NewRet
    /\ mutex = Unlocked
    /\ calls = NoCalls

NextCalc == MockCalculateTotalCost

SpecCalc == InitCalc /\ [][NextCalc]_vars

(***************************************************************************)
(* The in-memory store called from several goroutines at once.  A step is  *)
(* one lock operation of a call together with the statements that follow   *)
(* it up to the next lock operation.  sync.RWMutex: Lock announces itself  *)
(* and then waits until the read holds are released; from the announcement *)
(* until Unlock no RLock is granted; one Lock announces at a time.         *)
(***************************************************************************)
ReadOps == {"GetByID", "List", "CalculateTotalCost"}
WriteOps == {"Create", "Update", "Delete"}

At(g, pc) == calls[g].pc = pc

Goto(g, pc) == calls' = [calls EXCEPT ![g].pc = pc]

\* creates that were called and have not stored their record yet
CreatesInFlight == Cardinality({g \in Goroutines : calls[g].op = "Create"})

\* a request goroutine calls the store
GoCall(g) ==
    /\ calls[g] = Idle
    /\ \E op \in ReadOps \cup WriteOps :
         /\ op = "Create" => Cardinality(DOMAIN subscriptions) + CreatesInFlight < MaxSubs
         /\ calls' = [calls EXCEPT ![g] = [op |-> op,
                                           pc |-> IF op \in ReadOps THEN "RLock" ELSE "Lock"]]
    /\ UNCHANGED <<repo, subscriptions, rows, nextSerial, now, created, supplied, ret, mutex>>

\* r.mutex.RLock() as the first statement of GetByID, List and CalculateTotalCost
GoRLock(g) ==
    /\ At(g, "RLock")
    /\ mutex.writer = 0
    /\ mutex' = [mutex EXCEPT !.readerCount = @ + 1]
    /\ Goto(g, IF calls[g].op = "CalculateTotalCost" THEN "parse" ELSE "RUnlock")
    /\ UNCHANGED <<repo, subscriptions, rows, nextSerial, now, created, supplied, ret>>

\* CalculateTotalCost parses and compares its periods: it returns an error, or
\* goes on to call r.List
GoCalculateParse(g) ==
    /\ At(g, "parse")
    /\ \E ok \in BOOLEAN : Goto(g, IF ok THEN "List.RLock" ELSE "RUnlock")
    /\ UNCHANGED <<repo, subscriptions, rows, nextSerial, now, created, supplied, ret, mutex>>

\* r.List called by CalculateTotalCost: its r.mutex.RLock(), with the read hold
\* of CalculateTotalCost still taken
GoCalculateListRLock(g) ==
    /\ At(g, "List.RLock")
    /\ mutex.writer = 0
    /\ mutex' = [mutex EXCEPT !.readerCount = @ + 1]
    /\ Goto(g, "List.RUnlock")
    /\ UNCHANGED <<repo, subscriptions, rows, nextSerial, now, created, supplied, ret>>

\* that List returns: its deferred RUnlock
GoCalculateListRUnlock(g) ==
    /\ At(g, "List.RUnlock")
    /\ mutex' = [mutex EXCEPT !.readerCount = @ - 1]
    /\ Goto(g, "RUnlock")
    /\ UNCHANGED <<repo, subscriptions, rows, nextSerial, now, created, supplied, ret>>

\* a reading call returns: its deferred RUnlock
GoRUnlock(g) ==
    /\ At(g, "RUnlock")
    /\ mutex' = [mutex EXCEPT !.readerCount = @ - 1]
    /\ calls' = [calls EXCEPT ![g] = Idle]
    /\ UNCHANGED <<repo, subscriptions, rows, nextSerial, now, created, supplied, ret>>

\* r.mutex.Lock() as the first statement of Create, Update and Delete: the
\* writer announces itself
GoLock(g) ==
    /\ At(g, "Lock")
    /\ mutex.writer = 0
    /\ mutex' = [mutex EXCEPT !.writer = g]
    /\ Goto(g, "Lock.wait")
    /\ UNCHANGED <<repo, subscriptions, rows, nextSerial, now, created, supplied, ret>>

\* the read holds are gone: Lock returns
GoLockAcquired(g) ==
    /\ At(g, "Lock.wait")
    /\ mutex.readerCount = 0
    /\ mutex' = [mutex EXCEPT !.locked = TRUE]
    /\ Goto(g, "Unlock")
    /\ UNCHANGED <<repo, subscriptions, rows, nextSerial, now, created, supplied, ret>>

\* what Create, Update and Delete do to the map under the lock
GoWritten(op, subs, t) ==
    CASE op = "Create" ->
           LET id == MockCreateID(subs, Netflix700A)
           IN  (Itoa(id) :> [Netflix700A EXCEPT !.ID = id, !.CreatedAt = t, !.UpdatedAt = t])
                   @@ subs
      [] op = "Update" ->
           IF Itoa(1) \in DOMAIN subs
           THEN [subs EXCEPT ![Itoa(1)] = [Spotify199A EXCEPT !.ID = 1, !.UpdatedAt = t]]
           ELSE subs
      [] OTHER ->
           [k \in DOMAIN subs \ {Itoa(1)} |-> subs[k]]

\* a writing call does its work and returns: its deferred Unlock
GoUnlock(g) ==
    /\ At(g, "Unlock")
    /\ subscriptions' = GoWritten(calls[g].op, subscriptions, now)
    /\ mutex' = Unlocked
    /\ calls' = [calls EXCEPT ![g] = Idle]
    /\ UNCHANGED <<repo, rows, nextSerial, now, created, supplied, ret>>

InitLock ==
    /\ repo = "mock"
    /\ subscriptions = <<>>
    /\ rows = <<>>
    /\ nextSerial = 1
    /\ now = 1
    /\ created = -1
    /\ supplied = <<>>
    /\ ret = NewRet
    /\ mutex = Unlocked
    /\ calls = NoCalls

NextLock ==
    \E g \in Goroutines :
       \/ GoCall(g)
       \/ GoRLock(g)
       \/ GoCalculateParse(g)
       \/ GoCalculateListRLock(g)
       \/ GoCalculateListRUnlock(g)
       \/ GoRUnlock(g)
       \/ GoLock(g)
       \/ GoLockAcquired(g)
       \/ GoUnlock(g)

SpecLock == InitLock /\ [][NextLock]_vars

(***************************************************************************)
(* Vocabulary of the properties.                                           *)
(***************************************************************************)
\* month_index(m) = year * 12 + month of a well-formed "MM-YYYY"
MonthIndex(text) ==
    DigitsValue(SubSeq(text, 4, 7)) * 12 + DigitsValue(SubSeq(text, 1, 2))

Max2(a, b) == IF a >= b THEN a ELSE b

Min2(a, b) == IF a <= b THEN a ELSE b

WellFormedRecord(r) ==
    DatePattern(r.StartDate) /\ (r.EndDate = NilPtr \/ DatePattern(r.EndDate[1]))

\* r passes the filters of a call: a filter left empty passes every record, a
\* user filter passes the records of the user it spells
Selected(r, userID, serviceName) ==
    /\ userID = "" \/ (~UuidParse(userID).err /\ r.UserID = UuidParse(userID).uuid)
    /\ serviceName = "" \/ r.ServiceName = serviceName

\* price * max(0, month_index(effective_end) - month_index(effective_start) + 1)
OverlapCost(r, startPeriod, endPeriod) ==
    LET effectiveStart == Max2(MonthIndex(r.StartDate), MonthIndex(startPeriod))
        effectiveEnd == IF r.EndDate = NilPtr THEN MonthIndex(endPeriod)
                        ELSE Min2(MonthIndex(r.EndDate[1]), MonthIndex(endPeriod))
    IN  r.Price * Max2(0, effectiveEnd - effectiveStart + 1)

RECURSIVE SumOverlapCost(_, _, _)
SumOverlapCost(records, startPeriod, endPeriod) ==
    IF records = {} THEN 0
    ELSE LET r == CHOOSE x \in records : TRUE
         IN  OverlapCost(r, startPeriod, endPeriod)
                 + SumOverlapCost(records \ {r}, startPeriod, endPeriod)

\* the latest call was CalculateTotalCost of the in-memory repository
MockCalculated == repo = "mock" /\ ret.op = "CalculateTotalCost"

\* the latest call was the handler's calculate over the database, answered 200
RepoCalculated == repo = "postgres" /\ ret.op = "CalculateTotalCost" /\ ret.status = 200

\* the window of the latest calculate call is well-formed and start <= end
WindowInOrder ==
    /\ DatePattern(ret.args.startPeriod)
    /\ DatePattern(ret.args.endPeriod)
    /\ MonthIndex(ret.args.startPeriod) <= MonthIndex(ret.args.endPeriod)

\* the stored records the filters of the latest call select
SelectedRecords(store) ==
    {r \in Records(store) : Selected(r, ret.args.userID, ret.args.serviceName)}

\* a store without its timestamps and ids: the payloads it was filled with
Contents(store) ==
    {[r EXCEPT !.ID = 0, !.CreatedAt = ZeroTime, !.UpdatedAt = ZeroTime] : r \in Records(store)}

C2_RepoTotalIsSumOfOverlapCosts ==
    (RepoCalculated /\ WindowInOrder)
        => ret.total = SumOverlapCost(SelectedRecords(rows),
                                      ret.args.startPeriod, ret.args.endPeriod)

(***************************************************************************)
(* C3: after Netflix (700, userA, from 01-2024) and Spotify (199, userA,   *)
(* from 02-2024), both open-ended, were created on an empty in-memory      *)
(* store, CalculateTotalCost filtered on userA over [01-2024, 12-2024]     *)
(* returns 10589.                                                          *)
(***************************************************************************)
CalculatedForUserAOver2024 ==
    /\ MockCalculated
    /\ UuidParse(ret.args.userID) = [err |-> FALSE, uuid |-> UserA]
    /\ ret.args.serviceName = ""
    /\ ret.args.startPeriod = Jan2024
    /\ ret.args.endPeriod = Dec2024

C4_TestScenario10788 ==
    (/\ CalculatedForUserAOver2024
     /\ created = 3
     /\ Contents(subscriptions) = {Netflix700A, Spotify199A, YouTube299B})
        => ret.err = NoErr /\ ret.total = (700 + 199) * 12

(***************************************************************************)
(* What one record adds to the total of the latest in-memory calculation:  *)
(* the total less the total of the same call on the store without it.      *)
(***************************************************************************)
Without(store, k) == [j \in DOMAIN store \ {k} |-> store[j]]

ContributionOf(k) ==
    {ret.total - o.total :
        o \in MockCalculateOutcomes(Without(subscriptions, k), ret.args.userID,
                                    ret.args.serviceName, ret.args.startPeriod,
                                    ret.args.endPeriod)}

WindowStart == MonthIndex(ret.args.startPeriod)

WindowEnd == MonthIndex(ret.args.endPeriod)

\* the months of the window in which r is active, counted one by one
SharedMonths(r) ==
    {m \in WindowStart..WindowEnd :
        /\ MonthIndex(r.StartDate) <= m
        /\ r.EndDate = NilPtr \/ m <= MonthIndex(r.EndDate[1])}

(***************************************************************************)
(* C5: a selected record without an end date, in a window [A, B] with      *)
(* A <= B whose start A is not before the record's start, adds exactly     *)
(* price * (month_index(B) - month_index(A) + 1) to the total.             *)
(***************************************************************************)
C5_OpenEndedCountsEveryWindowMonth ==
    (MockCalculated /\ WindowInOrder)
        => \A k \in DOMAIN subscriptions :
              LET r == subscriptions[k] IN
              (/\ r.EndDate = NilPtr
               /\ DatePattern(r.StartDate)
               /\ MonthIndex(r.StartDate) <= WindowStart
               /\ Selected(r, ret.args.userID, ret.args.serviceName))
                  => ContributionOf(k) = {r.Price * (WindowEnd - WindowStart + 1)}

\* an open-ended record from 06-2023, charged for the six months 07-2024..12-2024
C5_Witness ==
    /\ MockCalculated
    /\ ret.args.startPeriod = Jul2024
    /\ ret.args.endPeriod = Dec2024
    /\ \E k \in DOMAIN subscriptions :
          /\ subscriptions[k].EndDate = NilPtr
          /\ subscriptions[k].StartDate = Jun2023
          /\ ContributionOf(k) = {subscriptions[k].Price * 6}
          /\ ret.total = subscriptions[k].Price * 6

(***************************************************************************)
(* C6: a record with well-formed dates whose active range shares no month  *)
(* with the window adds 0 to the total, whether it ends before the window  *)
(* starts or starts after the window ends; a store of such records only    *)
(* totals 0.                                                               *)
(***************************************************************************)
C6_DisjointContributesNothing ==
    (MockCalculated /\ WindowInOrder)
        => /\ \A k \in DOMAIN subscriptions :
                 (WellFormedRecord(subscriptions[k]) /\ SharedMonths(subscriptions[k]) = {})
                    => ContributionOf(k) = {0}
           /\ (\A r \in Records(subscriptions) :
                   WellFormedRecord(r) /\ SharedMonths(r) = {})
                 => ret.err = NoErr /\ ret.total = 0

\* the record [01-2024, 06-2024] against the window [07-2024, 12-2024]
C6_Witness ==
    /\ MockCalculated
    /\ ret.args.startPeriod = Jul2024
    /\ ret.args.endPeriod = Dec2024
    /\ ret.args.userID = ""
    /\ ret.args.serviceName = ""
    /\ \E k \in DOMAIN subscriptions :
          /\ subscriptions[k].StartDate = Jan2024
          /\ subscriptions[k].EndDate = Ptr(Jun2024)
          /\ ContributionOf(k) = {0}
    /\ ret.total = 0

Store == IF repo = "mock" THEN subscriptions ELSE rows

ListAnswered == ret.op = "List" /\ ret.err = NoErr

SelectedStore(store) ==
    [k \in {j \in DOMAIN store :
                Selected(store[j], ret.args.userID, ret.args.serviceName)} |-> store[k]]

C8_FiltersSelectExactlyTheMatches ==
    /\ ListAnswered
          => /\ {ret.list[i] : i \in DOMAIN ret.list} = SelectedRecords(Store)
             /\ Len(ret.list) = Cardinality(SelectedRecords(Store))
             /\ (ret.args.userID = "" /\ ret.args.serviceName = "" /\ created >= 0)
                   => Len(ret.list) >= created
    /\ (MockCalculated /\ ret.err = NoErr)
          => \A o \in MockCalculateOutcomes(SelectedStore(subscriptions), "", "",
                                             ret.args.startPeriod, ret.args.endPeriod) :
                o.err = NoErr /\ o.total = ret.total
    /\ RepoCalculated
          => ret.total = RepoCalculateTotalCost(
                             SelectedStore(rows),
                             CalculateCostRequest(NilPtr, NilPtr, ret.args.startPeriod,
                                                  ret.args.endPeriod))

\* both filters given, on a store of three created records of which one passes
\* both, one the user filter only and one the service filter only
C8_Witness ==
    /\ repo = "mock"
    /\ ListAnswered
    /\ created = 3
    /\ ret.args.userID # ""
    /\ ret.args.serviceName # ""
    /\ Len(ret.list) = 1
    /\ \E r \in Records(subscriptions) :
          Selected(r, ret.args.userID, "") /\ ~Selected(r, "", ret.args.serviceName)
    /\ \E r \in Records(subscriptions) :
          ~Selected(r, ret.args.userID, "") /\ Selected(r, "", ret.args.serviceName)

(***************************************************************************)
(* C9: the result of CalculateTotalCost depends only on the store content  *)
(* and the arguments: every result the call may produce on the store as it *)
(* is, in whatever order the records are walked, is the one it returned;   *)
(* and calculate and list calls leave the store as it was, so a repeated   *)
(* call returns the identical total.                                       *)
(***************************************************************************)
C9_RepeatedCalculationIsIdentical ==
    /\ [](MockCalculated
            => MockCalculateOutcomes(subscriptions, ret.args.userID, ret.args.serviceName,
                                     ret.args.startPeriod, ret.args.endPeriod)
                 = {[total |-> ret.total, err |-> ret.err]})
    /\ [][ret'.op \in {"CalculateTotalCost", "List", "New"}
            => subscriptions' = subscriptions /\ rows' = rows]_vars

\* a total made of the costs of several records, which List may hand over in
\* several orders
C9_Witness ==
    /\ MockCalculated
    /\ ret.err = NoErr
    /\ ret.total > 0
    /\ Cardinality(MockListResults(subscriptions, ret.args.userID, ret.args.serviceName)) >= 6
    /\ \A r \in SelectedRecords(subscriptions) :
          OverlapCost(r, ret.args.startPeriod, ret.args.endPeriod) > 0

(***************************************************************************)
(* C10 as stated: for well-formed months, CalculateTotalCost returns no    *)
(* error, and total 0 for a window whose start is strictly after its end.  *)
(***************************************************************************)
C10_BackwardsWindowTotalsZeroWithoutError ==
    (/\ MockCalculated
     /\ DatePattern(ret.args.startPeriod)
     /\ DatePattern(ret.args.endPeriod))
        => /\ ret.err = NoErr
           /\ WindowStart > WindowEnd => ret.total = 0

(***************************************************************************)
(* C10 amended: for well-formed months, the in-memory CalculateTotalCost   *)
(* returns an error exactly for a window whose start is strictly after its *)
(* end: there it returns total 0 with the error "start period cannot be    *)
(* after end period"; for start <= end it returns no error.                *)
(***************************************************************************)
C10_BackwardsWindowIsRejected ==
    (/\ MockCalculated
     /\ DatePattern(ret.args.startPeriod)
     /\ DatePattern(ret.args.endPeriod))
        => IF WindowStart > WindowEnd
           THEN ret.total = 0 /\ ret.err = "start period cannot be after end period"
           ELSE ret.err = NoErr

\* the window [12-2024, 01-2024] on a store holding a record active in 2024
C10_Witness ==
    /\ MockCalculated
    /\ ret.args.startPeriod = Dec2024
    /\ ret.args.endPeriod = Jan2024
    /\ ret.args.userID = ""
    /\ ret.args.serviceName = ""
    /\ \E r \in Records(subscriptions) : r.StartDate = Jan2024 /\ r.EndDate = NilPtr
    /\ ret.total = 0
    /\ ret.err = "start period cannot be after end period"

(***************************************************************************)
(* C11: GetByID, Update and Delete called with an id of no stored record   *)
(* report not-found (the repository's error in the in-memory store, 404    *)
(* from the handlers) and leave the store as it was; called with the id of *)
(* a stored record they never report not-found.  (A request answered 400   *)
(* never got as far as the store and is left aside.)                       *)
(***************************************************************************)
ByIdOps == {"GetByID", "Get", "Update", "Delete"}

\* the key of the store the id text of a call stands for
StoreKey(idText) == IF repo = "mock" THEN idText ELSE Atoi(idText)

NotFoundReported(r) ==
    IF repo = "mock" THEN r.err = "subscription not found" ELSE r.status = 404

C11_NotFoundExactlyForMissingIds ==
    [][(ret'.op \in ByIdOps /\ ret'.status # 400)
          => IF StoreKey(ret'.args.id) \in DOMAIN Store
             THEN ~NotFoundReported(ret')
             ELSE NotFoundReported(ret') /\ Store' = Store]_vars

(***************************************************************************)
(* C12: an Update that succeeds changes, of service_name, price, user_id   *)
(* and start_date, only the fields the request supplies: an omitted field  *)
(* (empty string, no price, no or the all-zero user identifier) keeps the  *)
(* stored value it had, a supplied field takes the supplied value.         *)
(***************************************************************************)
\* the fields a request supplies, each as <<>> (omitted) or <<value>>
SuppliedFields(args) ==
    IF repo = "mock"
    THEN LET p == args.subscription
         IN  [ServiceName |-> IF p.ServiceName = "" THEN <<>> ELSE <<p.ServiceName>>,
              Price |-> IF p.Price = 0 THEN <<>> ELSE <<p.Price>>,
              UserID |-> IF p.UserID = NilUUID THEN <<>> ELSE <<p.UserID>>,
              StartDate |-> IF p.StartDate = <<>> THEN <<>> ELSE <<p.StartDate>>]
    ELSE LET req == args.request
         IN  [ServiceName |-> IF req.ServiceName = "" THEN <<>> ELSE <<req.ServiceName>>,
              Price |-> req.Price,
              UserID |-> IF req.UserID = "" \/ UuidParse(req.UserID).uuid = NilUUID
                         THEN <<>> ELSE <<UuidParse(req.UserID).uuid>>,
              StartDate |-> IF req.StartDate = <<>> THEN <<>> ELSE <<req.StartDate>>]

\* the step is an Update that changed the record it names
UpdateApplied ==
    /\ ret'.op = "Update"
    /\ IF repo = "mock" THEN ret'.err = NoErr
       ELSE ret'.status = 200 \/ (ret'.status = 500 /\ ~AtoiFails(ret'.args.id))

PartialFields == {"ServiceName", "Price", "UserID", "StartDate"}

C12_UpdateChangesOnlySuppliedFields ==
    [][UpdateApplied =>
          LET key == StoreKey(ret'.args.id)
              given == SuppliedFields(ret'.args)
          IN  \A f \in PartialFields :
                 Store'[key][f] = IF given[f] = <<>> THEN Store[key][f] ELSE given[f][1]]_vars

(***************************************************************************)
(* C13: an Update whose body has no end_date key leaves the stored         *)
(* end_date as it was; only a body that carries end_date: null makes the   *)
(* record open-ended, and a body that carries a month stores that month.   *)
(***************************************************************************)
C13_OmittedEndDateIsKept ==
    [][(repo = "postgres" /\ UpdateApplied) =>
          LET key == StoreKey(ret'.args.id)
              body == ret'.args.body
          IN  rows'[key].EndDate = IF body.EndDatePresent THEN body.EndDate
                                   ELSE rows[key].EndDate]_vars

(***************************************************************************)
(* C14: a Create of the in-memory store that leaves the choice of the id   *)
(* to the store (ID 0) is given an id no stored record has, so it adds a   *)
(* record and replaces none: the number of records grows by exactly one.   *)
(***************************************************************************)
StoreChosenCreate == repo = "mock" /\ ret'.op = "Create" /\ ret'.args.ID = 0

C14_StoreChosenIdIsFresh ==
    [][StoreChosenCreate =>
          /\ Itoa(ret'.sub.ID) \notin DOMAIN subscriptions
          /\ Cardinality(DOMAIN subscriptions') = Cardinality(DOMAIN subscriptions) + 1]_vars

(***************************************************************************)
(* C15: a request whose repository call failed in the storage (any error   *)
(* but record-not-found) is answered 500 by every endpoint, and 404 is     *)
(* answered only when the record the request names is not stored.          *)
(***************************************************************************)
StorageFailures ==
    {"Failed to create subscription", "Failed to retrieve created subscription",
     "Failed to list subscriptions", "Failed to calculate total cost",
     "failed to get subscription", "failed to update subscription",
     "failed to delete subscription"}

C15_StorageFailureIs500 ==
    repo = "postgres" =>
       /\ ret.err \in StorageFailures => ret.status = 500
       /\ ret.status = 404 => Atoi(ret.args.id) \notin DOMAIN rows

(***************************************************************************)
(* C16: a create, update or calculate request that carries a date which is *)
(* not a two-digit month 01..12, a hyphen and a four-digit year is         *)
(* answered 400 and nothing is stored or changed for it; a request whose   *)
(* dates all have that form is never answered with a date-format error.    *)
(***************************************************************************)
\* MM-YYYY read as numbers: seven characters, a month from 1 to 12, a year
ConformsMMYYYY(s) ==
    /\ Len(s) = 7
    /\ s[3] = "-"
    /\ \A i \in {1, 2, 4, 5, 6, 7} : IsDigit(s[i])
    /\ DigitVal(s[1]) * 10 + DigitVal(s[2]) \in 1..12

\* the dates the request of a response carried
RequestDates(r) ==
    LET start == CASE r.op = "Create" -> r.args.StartDate
                   [] r.op = "Update" -> r.args.request.StartDate
                   [] OTHER -> r.args.startPeriod
        end == CASE r.op = "Create" -> r.args.EndDate
                 [] r.op = "Update" -> r.args.request.EndDate
                 [] OTHER -> IF r.args.endPeriod = <<>> THEN NilPtr ELSE Ptr(r.args.endPeriod)
    IN  (IF start = <<>> THEN {} ELSE {start}) \cup (IF end = NilPtr THEN {} ELSE {end[1]})

DateFormatErrors ==
    {"date must be in MM-YYYY format", "period must be in MM-YYYY format",
     "start_date must be in MM-YYYY format", "end_date must be in MM-YYYY format"}

C16_MalformedDatesAreRejectedUnstored ==
    [][(repo = "postgres" /\ ret'.op \in {"Create", "Update", "CalculateTotalCost"}) =>
          LET dates == RequestDates(ret')
          IN  /\ (\E d \in dates : ~ConformsMMYYYY(d)) =>
                    /\ ret'.status = 400
                    /\ rows' = rows /\ nextSerial' = nextSerial
              /\ (\A d \in dates : ConformsMMYYYY(d)) => ret'.err \notin DateFormatErrors]_vars

\* an update of a stored row with end_date "2024-12" was answered 400 and the
\* row is as it was seeded
C16_Witness ==
    /\ repo = "postgres"
    /\ ret.op = "Update" /\ ret.status = 400
    /\ ret.err = "end_date must be in MM-YYYY format"
    /\ ret.args.request.EndDate = Ptr(YearFirst)
    /\ ret.args.id = Itoa(1)
    /\ rows[1] = SeedRows[1]

(***************************************************************************)
(* C17: with CalculateTotalCost, List, GetByID, Create, Update and Delete  *)
(* called on the in-memory store from several goroutines at once, no       *)
(* reachable state is a deadlock: whatever the interleaving, some call can *)
(* take its next step, so that every call comes to hold the lock and       *)
(* returns.                                                                *)
(***************************************************************************)
C17_NoDeadlock == ENABLED NextLock

(***************************************************************************)
(* C18: a create that succeeds returns a record with exactly the fields it *)
(* was given, and a get of the id a create returned, made before any       *)
(* update or delete that follows the create, returns a record with that id *)
(* and the service_name, price, user_id, start_date and end_date given to  *)
(* that create.                                                            *)
(***************************************************************************)
\* the five fields of a record, or of the request or payload of a create
GivenFields(x) ==
    [ServiceName |-> x.ServiceName, Price |-> x.Price, UserID |-> UuidParse(x.UserID).uuid,
     StartDate |-> x.StartDate, EndDate |-> x.EndDate]

CreateSucceeded == ret.op = "Create" /\ (IF repo = "mock" THEN ret.err = NoErr ELSE ret.status = 201)

GetSucceeded ==
    /\ ret.op \in {"GetByID", "Get"}
    /\ IF repo = "mock" THEN ret.err = NoErr ELSE ret.status = 200

C18_CreateThenGetRoundTrip ==
    /\ CreateSucceeded => GivenFields(ret.sub) = GivenFields(ret.args)
    /\ (GetSucceeded /\ StoreKey(ret.args.id) \in DOMAIN supplied) =>
          /\ ret.sub.ID = Atoi(ret.args.id)
          /\ \A given \in supplied[StoreKey(ret.args.id)] :
                GivenFields(ret.sub) = GivenFields(given)

(***************************************************************************)
(* C19: an Update leaves the id and the created_at of the record as the    *)
(* store set them on Create, whatever the payload carries in those fields; *)
(* of the fields the store sets, only updated_at is given a new reading.   *)
(***************************************************************************)
C19_IdAndCreatedAtSurviveUpdate ==
    [][UpdateApplied =>
          LET key == StoreKey(ret'.args.id)
          IN  /\ Store'[key].ID = Store[key].ID
              /\ Store'[key].CreatedAt = Store[key].CreatedAt
              /\ Store'[key].UpdatedAt = now']_vars

(***************************************************************************)
(* C20: a stored record whose end month is strictly before its start month *)
(* adds 0 to the total of CalculateTotalCost for every window with         *)
(* start_period <= end_period; a store of such records alone totals 0.     *)
(***************************************************************************)
EndsBeforeItStarts(r) ==
    /\ WellFormedRecord(r)
    /\ r.EndDate # NilPtr
    /\ MonthIndex(r.EndDate[1]) < MonthIndex(r.StartDate)

C20_InvertedRangeContributesNothing ==
    (MockCalculated /\ WindowInOrder)
        => /\ \A k \in DOMAIN subscriptions :
                 EndsBeforeItStarts(subscriptions[k]) => ContributionOf(k) = {0}
           /\ (\A r \in Records(subscriptions) : EndsBeforeItStarts(r))
                 => ret.err = NoErr /\ ret.total = 0

\* the record [07-2024, 01-2024] inside the window [01-2024, 12-2024]
C20_Witness ==
    /\ MockCalculated
    /\ ret.args.startPeriod = Jan2024
    /\ ret.args.endPeriod = Dec2024
    /\ ret.args.userID = ""
    /\ ret.args.serviceName = ""
    /\ \E k \in DOMAIN subscriptions :
          /\ subscriptions[k].StartDate = Jul2024
          /\ subscriptions[k].EndDate = Ptr(Jan2024)
          /\ EndsBeforeItStarts(subscriptions[k])
          /\ ContributionOf(k) = {0}
    /\ ret.total = 0

(***************************************************************************)
(* C21: CalculateTotalCost, List and GetByID (and the handlers' Get) are   *)
(* read-only: whether the call succeeds or returns an error, the store     *)
(* holds the same records with the same fields, updated_at included, after *)
(* the call as before it.                                                  *)
(***************************************************************************)
ReadingOps == {"CalculateTotalCost", "List", "GetByID", "Get"}

C21_ReadsLeaveTheStoreAlone ==
    [][ret'.op \in ReadingOps =>
          /\ subscriptions' = subscriptions
          /\ rows' = rows
          /\ nextSerial' = nextSerial]_vars

\* a calculation over two stored records failed on its start period: the
\* records still carry the reading of their creation
C21_Witness ==
    /\ repo = "mock"
    /\ Cardinality(DOMAIN subscriptions) = 2
    /\ \A r \in Records(subscriptions) : r.UpdatedAt = 1 /\ r.CreatedAt = 1
    /\ ret.op = "CalculateTotalCost"
    /\ ret.err = "invalid start period format"

(***************************************************************************)
(* C22: a Delete that succeeds removes the record of its id and no other,  *)
(* an Update that succeeds changes the record of its id and no other:      *)
(* every other record keeps all of its fields.  Once an id is deleted a    *)
(* get of it reports not-found, and only a create puts a record under an   *)
(* id that had none.                                                       *)
(***************************************************************************)
DeleteApplied ==
    /\ ret'.op = "Delete"
    /\ IF repo = "mock" THEN ret'.err = NoErr ELSE ret'.status = 204

C22_OtherRecordsAreLeftAlone ==
    [][/\ DeleteApplied =>
            /\ StoreKey(ret'.args.id) \in DOMAIN Store
            /\ Store' = Without(Store, StoreKey(ret'.args.id))
       /\ UpdateApplied =>
            /\ DOMAIN Store' = DOMAIN Store
            /\ \A k \in DOMAIN Store \ {StoreKey(ret'.args.id)} : Store'[k] = Store[k]
       /\ (ret'.op \in {"GetByID", "Get"} /\ ret'.status # 400
               /\ StoreKey(ret'.args.id) \notin DOMAIN Store)
            => NotFoundReported(ret')
       /\ DOMAIN Store' \ DOMAIN Store # {} => ret'.op = "Create"]_vars

\* record 1 of three was deleted: records 2 and 3 are what is left
C22_Witness ==
    /\ repo = "mock"
    /\ ret.op = "Delete" /\ ret.err = NoErr
    /\ ret.args.id = Itoa(1)
    /\ DOMAIN subscriptions = {Itoa(2), Itoa(3)}

(***************************************************************************)
(* C23: over stored records with well-formed dates, for every filter and   *)
(* all months A <= B < C, the total of CalculateTotalCost over [A, C] is   *)
(* its total over [A, B] plus its total over [the month after B, C]; so    *)
(* neither part of a window totals more than the whole window.             *)
(***************************************************************************)
\* the "MM-YYYY" text of a month index: the inverse of MonthIndex
MonthOfIndex(i) ==
    LET month == ((i - 1) % 12) + 1
    IN  MMYYYY(month, (i - month) \div 12)

\* the totals CalculateTotalCost may return for the store and the filters of
\* the latest call over the window of month indices [a, b]
TotalsOver(a, b) ==
    MockCalculateOutcomes(subscriptions, ret.args.userID, ret.args.serviceName,
                          MonthOfIndex(a), MonthOfIndex(b))

C23_AdditiveOverAdjacentWindows ==
    (MockCalculated /\ WindowInOrder
        /\ \A r \in Records(subscriptions) : WellFormedRecord(r))
        => /\ ret.err = NoErr
           /\ \A b \in WindowStart..(WindowEnd - 1) :
                 \A left \in TotalsOver(WindowStart, b), right \in TotalsOver(b + 1, WindowEnd) :
                    /\ left.err = NoErr /\ right.err = NoErr
                    /\ ret.total = left.total + right.total
                    /\ left.total <= ret.total /\ right.total <= ret.total

\* an open-ended record from 06-2023 over [06-2023, 12-2024], split after
\* 12-2023: 19 months are 7 months and 12 months
C23_Witness ==
    /\ MockCalculated
    /\ ret.args.startPeriod = Jun2023
    /\ ret.args.endPeriod = Dec2024
    /\ \E k \in DOMAIN subscriptions :
          LET r == subscriptions[k]
          IN  /\ r.StartDate = Jun2023 /\ r.EndDate = NilPtr
              /\ ret.total = r.Price * 19
              /\ TotalsOver(MonthIndex(Jun2023), MonthIndex(Dec2023))
                     = {[total |-> r.Price * 7, err |-> NoErr]}
              /\ TotalsOver(MonthIndex(Jan2024), MonthIndex(Dec2024))
                     = {[total |-> r.Price * 12, err |-> NoErr]}

====
